---- MODULE Spec2Model ----
(***************************************************************************)
(* Waveform sessions of the Qontrol GUI: the Toggle and Ramp controllers,  *)
(* the auto-update sampler and the telemetry buffer of FunctionsWindow, in *)
(* its two versions (src/functions_window.py drives currents through       *)
(* driver.i, src/gui.py drives voltages through driver.v).                 *)
(***************************************************************************)
EXTENDS Integers, Sequences, FiniteSets, TLC

(***************************************************************************)
(* Python floats.  A float is an IEEE 754 binary64 number; the values met  *)
(* here are zero and positive normal numbers.  A positive float is kept as *)
(* [hi, lo, e] and stands for (hi * 2^26 + lo) * 2^e, with a significand   *)
(* of exactly MantBits bits (2^26 <= hi < 2^27).  Exact intermediate       *)
(* results are naturals written in base 2^26, least significant limb       *)
(* first; they are rounded to nearest, ties to even, as the hardware does. *)
(***************************************************************************)
MantBits == 53
LimbBits == 26

RECURSIVE Pow2(_)
Pow2(n) == IF n = 0 THEN 1 ELSE 2 * Pow2(n - 1)

Base == Pow2(LimbBits)

\* number of bits of the natural x < 2^30
BitLen(x) == CHOOSE k \in 0..30 : x < Pow2(k) /\ (k = 0 \/ x >= Pow2(k - 1))

RECURSIVE TrimL(_)
\* drop the most significant limbs that are zero
TrimL(a) == IF a = <<>> \/ a[Len(a)] # 0 THEN a ELSE TrimL(SubSeq(a, 1, Len(a) - 1))

BitLenL(a) == IF a = <<>> THEN 0 ELSE LimbBits * (Len(a) - 1) + BitLen(a[Len(a)])

RECURSIVE AddL(_, _, _)
\* a + b + c
AddL(a, b, c) ==
  IF a = <<>> /\ b = <<>> THEN (IF c = 0 THEN <<>> ELSE <<c>>)
  ELSE LET x == IF a = <<>> THEN 0 ELSE Head(a)
           y == IF b = <<>> THEN 0 ELSE Head(b)
           s == x + y + c
       IN  <<s % Base>> \o AddL(IF a = <<>> THEN a ELSE Tail(a),
                                IF b = <<>> THEN b ELSE Tail(b), s \div Base)

RECURSIVE MulL(_, _, _)
\* k * a + c, for a natural k <= 16
MulL(a, k, c) ==
  IF a = <<>> THEN (IF c = 0 THEN <<>> ELSE <<c>>)
  ELSE LET s == Head(a) * k + c
       IN  <<s % Base>> \o MulL(Tail(a), k, s \div Base)

RECURSIVE DivL(_, _, _)
\* long division of a by a natural d in 1..16, most significant limb first,
\* entered with remainder r: <<quotient, final remainder>>
DivL(a, d, r) ==
  IF a = <<>> THEN <<(<<>>), r>>
  ELSE LET t == r * Base + a[Len(a)]
           rest == DivL(SubSeq(a, 1, Len(a) - 1), d, t % d)
       IN  <<Append(rest[1], t \div d), rest[2]>>

RECURSIVE ShL(_, _)
\* a * 2^s
ShL(a, s) ==
  IF s = 0 THEN a
  ELSE IF s >= LimbBits THEN <<0>> \o ShL(a, s - LimbBits)
  ELSE IF s >= 4 THEN ShL(MulL(a, 16, 0), s - 4)
  ELSE MulL(a, Pow2(s), 0)

RECURSIVE ShR(_, _)
\* <<a \div 2^s, whether a bit that was dropped is 1>>
ShR(a, s) ==
  IF s = 0 THEN <<a, FALSE>>
  ELSE LET k == IF s >= 4 THEN 4 ELSE s
           q == DivL(a, Pow2(k), 0)
           rest == ShR(q[1], s - k)
       IN  <<rest[1], rest[2] \/ q[2] # 0>>

FZero == [hi |-> 0, lo |-> 0, e |-> 0]

\* the significand of the float x as limbs
Limbs(x) == <<x.lo, x.hi % Base, x.hi \div Base>>

\* the float of significand m (MantBits bits, as limbs) and exponent e
Pack(m, e) == [hi |-> m[3] * Base + m[2], lo |-> m[1], e |-> e]

\* the float nearest to n * 2^e (plus something in (0, 2^e) when sticky), ties to even
Round(n, e, sticky) ==
  LET b == TrimL(n)
      L == BitLenL(b)
  IN  IF L = 0 THEN FZero
      ELSE IF L <= MantBits THEN Pack(ShL(b, MantBits - L), e - (MantBits - L))
      ELSE LET d == L - MantBits
               low == ShR(b, d - 1)
               q == DivL(low[1], 2, 0)
               kept == TrimL(q[1])
               up == q[2] = 1 /\ (sticky \/ low[2] \/ kept[1] % 2 = 1)
               r == IF up THEN AddL(kept, <<1>>, 0) ELSE kept
           IN  IF BitLenL(r) > MantBits
                 THEN Pack(DivL(r, 2, 0)[1], e + d + 1)
                 ELSE Pack(r, e + d)

\* float(n) for a natural n < 2^30
FromInt(n) == Round(<<n % Base, n \div Base>>, 0, FALSE)

\* int(x): the integer part of a float x < 2^30
FTrunc(x) ==
  IF x = FZero THEN 0
  ELSE LET n == IF x.e >= 0 THEN ShL(Limbs(x), x.e) ELSE ShR(Limbs(x), 0 - x.e)[1]
           t == TrimL(n)
       IN  IF t = <<>> THEN 0 ELSE IF Len(t) = 1 THEN t[1] ELSE t[2] * Base + t[1]

\* x + y
FAdd(x, y) ==
  IF x = FZero THEN y
  ELSE IF y = FZero THEN x
  ELSE LET e == IF x.e < y.e THEN x.e ELSE y.e
       IN  Round(AddL(ShL(Limbs(x), x.e - e), ShL(Limbs(y), y.e - e), 0), e, FALSE)

\* k * x for an int k in 0..16 (Python converts k to float; the product is
\* exact before it is rounded)
FMulInt(k, x) ==
  IF x = FZero \/ k = 0 THEN FZero ELSE Round(MulL(Limbs(x), k, 0), x.e, FALSE)

GuardBits == 8

\* x / d for an int d in 1..16
FDivInt(x, d) ==
  IF x = FZero THEN FZero
  ELSE LET q == DivL(ShL(Limbs(x), GuardBits), d, 0)
       IN  Round(q[1], x.e - GuardBits, q[2] # 0)

\* the natural of at most two limbs a, as an integer
IntOfL(a) ==
  LET t == TrimL(a)
  IN  IF t = <<>> THEN 0 ELSE IF Len(t) = 1 THEN t[1] ELSE t[2] * Base + t[1]

\* f"{x:.2f}": the decimal of two places nearest to the float x >= 0 (ties to
\* even, on the exact binary value), given as its number of hundredths:
\* "0.10" is 10
Format2(x) ==
  IF x = FZero THEN 0
  ELSE LET p == MulL(MulL(Limbs(x), 10, 0), 10, 0)
       IN  IF x.e >= 0 THEN IntOfL(ShL(p, x.e))
           ELSE LET low == ShR(p, (0 - x.e) - 1)
                    q == DivL(low[1], 2, 0)
                    kept == IntOfL(q[1])
                    up == q[2] = 1 /\ (low[2] \/ kept % 2 = 1)
                IN  IF up THEN kept + 1 ELSE kept

\* x < y
FLess(x, y) ==
  IF y = FZero THEN FALSE
  ELSE IF x = FZero THEN TRUE
  ELSE x.e < y.e \/ (x.e = y.e /\ (x.hi < y.hi \/ (x.hi = y.hi /\ x.lo < y.lo)))


(***************************************************************************)
(* The window.  FunctionsWindow exists in two versions; variant says which *)
(* one is running: "fw" is src/functions_window.py, "gui" is src/gui.py.   *)
(* Every handler runs to completion on the GUI thread, so a handler is one *)
(* action.  The timers are QTimers: once started they fire again and again *)
(* until stopped, at times the event loop chooses.                         *)
(***************************************************************************)
NumChannels == 2
MaxToggleTicks == 3
MaxSamples == 2
MaxTime == 1
MaxReports == 2

ramp_steps == 10
\* the channels of the connected device
Channels == 1..NumChannels
\* functions_window.py: the last item of the channel combo box, "Ch 60"
fw_combo_last == 60
None == 0

\* what the user may have typed into a line edit, and float() of it
Numerals == ("0" :> 0) @@ ("1" :> 1) @@ ("3" :> 3) @@ ("1000" :> 1000)
\* texts of fractions, with their numerators over 256
Fractions == ("0.00390625" :> 1)
IsFloat(text) == text \in DOMAIN Numerals \/ text \in DOMAIN Fractions
float(text) ==
  IF text \in DOMAIN Numerals THEN FromInt(Numerals[text])
  ELSE FDivInt(FDivInt(FromInt(Fractions[text]), 16), 16)
ToggleTexts == {"3"}
RampMaxTexts == {"", "1"}
DurationTexts == {"ms"}

VARIABLES
  variant,         \* which source file's FunctionsWindow is running
  combo,           \* channel_combo / combo: the channel selected
  checked,         \* toggle_button.isChecked()
  active_channel,  \* None or a channel
  toggle_state, toggle_value,
  ramp_step,       \* ramp_step (fw), step_value (gui)
  ramp_count,      \* ramp_count (fw), current_step (gui)
  current_ramp,    \* fw only
  ramp_interval,   \* ramp_timer.interval()
  toggle_timer, ramp_timer, auto_timer,   \* QTimer.isActive()
  drv,             \* driver.i (fw), driver.v (gui): the commanded values
  now,             \* time.time()
  start_time, time_data, val_data,        \* val_data: current_data (fw), voltage_data (gui)
  crashed,         \* the process was aborted on an uncaught exception
  \* history
  op,              \* the handler that ran last
  out,             \* the writes to the driver it made, in order
  tw,              \* the values written by toggle ticks since Toggle was started
  rw,              \* the writes of the Ramp controller since Ramp was started
  amp,             \* float() of the amplitude the running Toggle was started with
  rmax,            \* float() of the maximum the last Ramp was started with
  session_start,   \* time of the last activation (Toggle on, Ramp start)
  sticks,          \* sampler ticks since the last activation
  nticks,          \* sampler ticks since the window was constructed
  ramp_failed,     \* a ramp tick's write raised since Ramp was started
  reports,         \* uncaught exceptions reported (tracebacks printed)
  label,           \* the text of each channel card's value label: in gui.py the
                   \* hundredths of "x.xx V", in functions_window.py the value shown
  ev,              \* the "changed" events the last handler raised (card flashes)
  again,           \* the last handler started Toggle or Ramp on the channel of a session
                   \* that was running: the step count and the phase it found
  txt,             \* the texts the last handler read from the line edits
  io_failed,       \* a toggle tick's write or a sampler read raised since the last activation
  style,           \* each channel card's style sheet: "base" or "success" (highlighted)
  shots            \* the QTimer.singleShot calls that have not fired yet, oldest first

ui == <<combo, checked>>
toggle == <<toggle_state, toggle_value>>
ramp == <<ramp_step, ramp_count, current_ramp, ramp_interval>>
timers == <<toggle_timer, ramp_timer, auto_timer>>
clock == <<now, start_time>>
plot == <<time_data, val_data>>
hist == <<op, out, tw, rw, amp, rmax, session_start, sticks, nticks, ramp_failed, reports, ev, again, txt, io_failed>>
card == <<style, shots>>
vars == <<variant, ui, active_channel, toggle, ramp, timers, drv, clock, plot, crashed, label, card, hist>>

\* a controller timer is running
Running == toggle_timer \/ ramp_timer
\* how far the waveforms have got
Progress == [count |-> ramp_count, state |-> toggle_state]

\* the window as __init__ leaves it; the attributes __init__ does not set
\* (toggle_value in gui.py, the ramp's in both) are not read before a start sets them
Init ==
  /\ variant \in {"fw", "gui"}
  /\ combo = 1
  /\ checked = FALSE
  /\ active_channel = None
  /\ toggle_state = FALSE
  /\ toggle_value = FZero
  /\ ramp_step = FZero
  /\ ramp_count = 0
  /\ current_ramp = FZero
  /\ ramp_interval = 0
  /\ toggle_timer = FALSE
  /\ ramp_timer = FALSE
  /\ auto_timer = FALSE
  /\ drv = [c \in Channels |-> FZero]
  /\ now = 0
  /\ start_time = now
  /\ time_data = <<>>
  /\ val_data = <<>>
  /\ crashed = FALSE
  /\ op = "init"
  /\ out = <<>>
  /\ tw = <<>>
  /\ rw = <<>>
  /\ amp = FZero
  /\ rmax = FZero
  /\ session_start = 0
  /\ sticks = 0
  /\ nticks = 0
  /\ ramp_failed = FALSE
  /\ reports = 0
  /\ label = [c \in Channels |-> IF variant = "gui" THEN 0 ELSE FZero]
  /\ ev = <<>>
  /\ again = <<>>
  /\ txt = <<>>
  /\ io_failed = FALSE
  /\ style = [c \in Channels |-> "base"]
  /\ shots = <<>>

Write(ch, val) == [ch |-> ch, val |-> val]

\* the user picks another entry of the channel combo box
ComboItems == IF variant = "fw" THEN 1..fw_combo_last ELSE 1..NumChannels

\* the user picks item c of the channel combo box
SelectChannel(c) ==
  /\ ~crashed
  /\ c \in ComboItems
  /\ c # combo
  /\ combo' = c
  /\ op' = "select"
  /\ out' = <<>>
  /\ UNCHANGED <<variant, checked, active_channel, toggle, ramp, timers, drv, clock, plot, crashed>>
  /\ UNCHANGED <<tw, rw, amp, rmax, session_start, sticks, nticks, ramp_failed, reports>>
  /\ ev' = <<>>
  /\ again' = <<>>
  /\ txt' = <<>>
  /\ UNCHANGED card
  /\ UNCHANGED <<label, io_failed>>

\* time passes
Tick ==
  /\ ~crashed
  /\ now < MaxTime
  /\ now' = now + 1
  /\ op' = "tick"
  /\ out' = <<>>
  /\ UNCHANGED <<variant, ui, active_channel, toggle, ramp, timers, drv, start_time, plot, crashed>>
  /\ UNCHANGED <<tw, rw, amp, rmax, session_start, sticks, nticks, ramp_failed, reports>>
  /\ ev' = <<>>
  /\ again' = <<>>
  /\ txt' = <<>>
  /\ UNCHANGED card
  /\ UNCHANGED <<label, io_failed>>

\* a start that leaves the active channel as it was
toggle_current_unset(chk, text) ==
  /\ variant = "fw" /\ ~crashed
  /\ chk = ~checked
  /\ checked' = chk
  /\ LET ch == combo
     IN  IF chk
           THEN /\ active_channel' = active_channel
                /\ toggle_value' = IF IsFloat(text) THEN float(text) ELSE FZero
                /\ toggle_state' = FALSE
                /\ toggle_timer' = TRUE
                /\ auto_timer' = TRUE
                /\ drv' = drv
                /\ op' = "toggle_on"
                /\ out' = <<>>
                /\ tw' = <<>>
                /\ amp' = IF IsFloat(text) THEN float(text) ELSE FZero
                /\ session_start' = now
                /\ sticks' = 0
           ELSE /\ toggle_timer' = FALSE
                /\ drv' = [drv EXCEPT ![ch] = FZero]
                /\ auto_timer' = FALSE
                /\ op' = "toggle_off"
                /\ out' = <<Write(ch, FZero)>>
                /\ UNCHANGED <<active_channel, toggle, tw, amp, session_start, sticks>>
  /\ UNCHANGED <<variant, combo, ramp, ramp_timer, clock, plot, crashed>>
  /\ UNCHANGED <<rw, rmax, nticks, ramp_failed, reports>>
  /\ ev' = <<>>
  /\ label' = label
  /\ again' = IF chk /\ Running /\ active_channel = combo THEN <<Progress>> ELSE <<>>
  /\ txt' = IF chk THEN <<text>> ELSE <<>>
  /\ UNCHANGED card
  /\ io_failed' = (IF chk THEN FALSE ELSE io_failed)

\* functions_window.py: the Toggle button is clicked and becomes chk
toggle_current(chk, text) ==
  /\ variant = "fw" /\ ~crashed
  /\ chk = ~checked
  /\ checked' = chk
  /\ LET ch == combo
     IN  IF chk
           THEN /\ active_channel' = ch
                /\ toggle_value' = IF IsFloat(text) THEN float(text) ELSE FZero
                /\ toggle_state' = FALSE
                /\ toggle_timer' = TRUE
                /\ auto_timer' = TRUE
                /\ drv' = drv
                /\ op' = "toggle_on"
                /\ out' = <<>>
                /\ tw' = <<>>
                /\ amp' = IF IsFloat(text) THEN float(text) ELSE FZero
                /\ session_start' = now
                /\ sticks' = 0
           ELSE /\ toggle_timer' = FALSE
                /\ drv' = [drv EXCEPT ![ch] = FZero]
                /\ auto_timer' = FALSE
                /\ op' = "toggle_off"
                /\ out' = <<Write(ch, FZero)>>
                /\ UNCHANGED <<active_channel, toggle, tw, amp, session_start, sticks>>
  /\ UNCHANGED <<variant, combo, ramp, ramp_timer, clock, plot, crashed>>
  /\ UNCHANGED <<rw, rmax, nticks, ramp_failed, reports>>
  /\ ev' = <<>>
  /\ label' = label
  /\ again' = IF chk /\ Running /\ active_channel = combo THEN <<Progress>> ELSE <<>>
  /\ txt' = IF chk THEN <<text>> ELSE <<>>
  /\ UNCHANGED card
  /\ io_failed' = (IF chk THEN FALSE ELSE io_failed)

\* a start that keeps the amplitude of the session before when the text
\* does not parse
toggle_voltage_keeping(chk, text) ==
  /\ variant = "gui" /\ ~crashed
  /\ chk = ~checked
  /\ checked' = chk
  /\ LET ch == combo
     IN  /\ active_channel' = ch
         /\ IF chk
              THEN /\ toggle_value' = IF IsFloat(text) THEN float(text) ELSE toggle_value
                   /\ toggle_state' = FALSE
                   /\ toggle_timer' = TRUE
                   /\ auto_timer' = TRUE
                   /\ drv' = drv
                   /\ op' = "toggle_on"
                   /\ out' = <<>>
                   /\ tw' = <<>>
                   /\ amp' = IF IsFloat(text) THEN float(text) ELSE FZero
                   /\ session_start' = now
                   /\ sticks' = 0
              ELSE /\ toggle_timer' = FALSE
                   /\ auto_timer' = FALSE
                   /\ drv' = [drv EXCEPT ![ch] = FZero]
                   /\ op' = "toggle_off"
                   /\ out' = <<Write(ch, FZero)>>
                   /\ UNCHANGED <<toggle, tw, amp, session_start, sticks>>
  /\ UNCHANGED <<variant, combo, ramp, ramp_timer, clock, plot, crashed>>
  /\ UNCHANGED <<rw, rmax, nticks, ramp_failed, reports>>
  /\ ev' = <<>>
  /\ label' = label
  /\ again' = IF chk /\ Running /\ active_channel = combo THEN <<Progress>> ELSE <<>>
  /\ txt' = IF chk THEN <<text>> ELSE <<>>
  /\ UNCHANGED card
  /\ io_failed' = (IF chk THEN FALSE ELSE io_failed)

\* gui.py: the Toggle button is clicked and becomes chk
toggle_voltage(chk, text) ==
  /\ variant = "gui" /\ ~crashed
  /\ chk = ~checked
  /\ checked' = chk
  /\ LET ch == combo
     IN  /\ active_channel' = ch
         /\ IF chk
              THEN /\ toggle_value' = IF IsFloat(text) THEN float(text) ELSE FZero
                   /\ toggle_state' = FALSE
                   /\ toggle_timer' = TRUE
                   /\ auto_timer' = TRUE
                   /\ drv' = drv
                   /\ op' = "toggle_on"
                   /\ out' = <<>>
                   /\ tw' = <<>>
                   /\ amp' = IF IsFloat(text) THEN float(text) ELSE FZero
                   /\ session_start' = now
                   /\ sticks' = 0
              ELSE /\ toggle_timer' = FALSE
                   /\ auto_timer' = FALSE
                   /\ drv' = [drv EXCEPT ![ch] = FZero]
                   /\ op' = "toggle_off"
                   /\ out' = <<Write(ch, FZero)>>
                   /\ UNCHANGED <<toggle, tw, amp, session_start, sticks>>
  /\ UNCHANGED <<variant, combo, ramp, ramp_timer, clock, plot, crashed>>
  /\ UNCHANGED <<rw, rmax, nticks, ramp_failed, reports>>
  /\ ev' = <<>>
  /\ label' = label
  /\ again' = IF chk /\ Running /\ active_channel = combo THEN <<Progress>> ELSE <<>>
  /\ txt' = IF chk THEN <<text>> ELSE <<>>
  /\ UNCHANGED card
  /\ io_failed' = (IF chk THEN FALSE ELSE io_failed)

\* a toggle tick that commands every channel of the device
perform_toggle_fw_all ==
  /\ variant = "fw" /\ ~crashed
  /\ toggle_timer
  /\ Len(tw) < MaxToggleTicks
  /\ LET ch == active_channel
     IN  IF ch = None
           THEN UNCHANGED <<drv, toggle_state, tw>> /\ out' = <<>>
           ELSE IF toggle_state
             THEN /\ drv' = [c \in Channels |-> FZero]
                  /\ toggle_state' = FALSE
                  /\ out' = <<Write(ch, FZero)>>
                  /\ tw' = Append(tw, FZero)
             ELSE /\ drv' = [c \in Channels |-> toggle_value]
                  /\ toggle_state' = TRUE
                  /\ out' = <<Write(ch, toggle_value)>>
                  /\ tw' = Append(tw, toggle_value)
  /\ op' = "toggle_tick"
  /\ UNCHANGED <<variant, ui, active_channel, toggle_value, ramp, timers, clock, plot, crashed>>
  /\ UNCHANGED <<rw, amp, rmax, session_start, sticks, nticks, ramp_failed, reports>>
  /\ ev' = <<>>
  /\ again' = <<>>
  /\ txt' = <<>>
  /\ UNCHANGED card
  /\ UNCHANGED <<label, io_failed>>

\* functions_window.py: toggle_timer fires
perform_toggle_fw ==
  /\ variant = "fw" /\ ~crashed
  /\ toggle_timer
  /\ Len(tw) < MaxToggleTicks
  /\ LET ch == active_channel
     IN  IF ch = None
           THEN UNCHANGED <<drv, toggle_state, tw>> /\ out' = <<>>
           ELSE IF toggle_state
             THEN /\ drv' = [drv EXCEPT ![ch] = FZero]
                  /\ toggle_state' = FALSE
                  /\ out' = <<Write(ch, FZero)>>
                  /\ tw' = Append(tw, FZero)
             ELSE /\ drv' = [drv EXCEPT ![ch] = toggle_value]
                  /\ toggle_state' = TRUE
                  /\ out' = <<Write(ch, toggle_value)>>
                  /\ tw' = Append(tw, toggle_value)
  /\ op' = "toggle_tick"
  /\ UNCHANGED <<variant, ui, active_channel, toggle_value, ramp, timers, clock, plot, crashed>>
  /\ UNCHANGED <<rw, amp, rmax, session_start, sticks, nticks, ramp_failed, reports>>
  /\ ev' = <<>>
  /\ again' = <<>>
  /\ txt' = <<>>
  /\ UNCHANGED card
  /\ UNCHANGED <<label, io_failed>>

\* the phases exchanged: 0 first, then the amplitude
ToggleOutput_inverted(state, value) == IF state THEN value ELSE FZero

\* gui.py: the value a toggle tick commands
ToggleOutput(state, value) == IF ~state THEN value ELSE FZero

\* gui.py: toggle_timer fires
perform_toggle_gui ==
  /\ variant = "gui" /\ ~crashed
  /\ toggle_timer
  /\ Len(tw) < MaxToggleTicks
  /\ LET ch == active_channel
         v == ToggleOutput(toggle_state, toggle_value)
     IN  /\ drv' = [drv EXCEPT ![ch] = v]
         /\ out' = <<Write(ch, v)>>
         /\ tw' = Append(tw, v)
  /\ toggle_state' = ~toggle_state
  /\ op' = "toggle_tick"
  /\ UNCHANGED <<variant, ui, active_channel, toggle_value, ramp, timers, clock, plot, crashed>>
  /\ UNCHANGED <<rw, amp, rmax, session_start, sticks, nticks, ramp_failed, reports>>
  /\ ev' = <<>>
  /\ again' = <<>>
  /\ txt' = <<>>
  /\ UNCHANGED card
  /\ UNCHANGED <<label, io_failed>>

\* functions_window.py: the Ramp button is clicked
start_ramp_fw(maxText, durText) ==
  /\ variant = "fw" /\ ~crashed
  /\ LET ch == combo
         ramp_max == IF IsFloat(maxText) THEN float(maxText) ELSE FZero
         ramp_duration == IF IsFloat(durText) THEN float(durText) ELSE FromInt(1000)
         interval == FDivInt(ramp_duration, ramp_steps)
     IN  /\ active_channel' = ch
         /\ ramp_step' = FDivInt(ramp_max, ramp_steps)
         /\ ramp_interval' = FTrunc(interval)
         /\ current_ramp' = FZero
         /\ ramp_count' = 0
         /\ drv' = [drv EXCEPT ![ch] = FZero]
         /\ ramp_timer' = TRUE
         /\ auto_timer' = TRUE
         /\ out' = <<Write(ch, FZero)>>
         /\ rw' = <<[src |-> "start", val |-> FZero]>>
         /\ rmax' = ramp_max
  /\ op' = "start_ramp"
  /\ session_start' = now
  /\ sticks' = 0
  /\ ramp_failed' = FALSE
  /\ UNCHANGED <<variant, ui, toggle, toggle_timer, clock, plot, crashed>>
  /\ UNCHANGED <<tw, amp, nticks, reports>>
  /\ ev' = <<>>
  /\ label' = label
  /\ again' = IF Running /\ active_channel = combo THEN <<Progress>> ELSE <<>>
  /\ txt' = <<maxText, durText>>
  /\ UNCHANGED card
  /\ io_failed' = FALSE

\* a start_ramp that empties the two series before the run
start_ramp_gui_clearing(maxText, durText) ==
  /\ variant = "gui" /\ ~crashed
  /\ LET ch == combo
         max_v == IF IsFloat(maxText) THEN float(maxText) ELSE FZero
         duration == IF IsFloat(durText) THEN float(durText) ELSE FromInt(1000)
         steps == 10
         interval == FDivInt(duration, steps)
     IN  /\ active_channel' = ch
         /\ ramp_step' = FDivInt(max_v, steps)
         /\ ramp_count' = 0
         /\ ramp_interval' = FTrunc(interval)
         /\ ramp_timer' = TRUE
         /\ auto_timer' = TRUE
         /\ rmax' = max_v
  /\ time_data' = <<>>
  /\ val_data' = <<>>
  /\ op' = "start_ramp"
  /\ out' = <<>>
  /\ rw' = <<>>
  /\ session_start' = now
  /\ sticks' = 0
  /\ ramp_failed' = FALSE
  /\ UNCHANGED <<variant, ui, toggle, current_ramp, toggle_timer, drv, clock, crashed>>
  /\ UNCHANGED <<tw, amp, nticks, reports>>
  /\ ev' = <<>>
  /\ label' = label
  /\ again' = IF Running /\ active_channel = combo THEN <<Progress>> ELSE <<>>
  /\ txt' = <<maxText, durText>>
  /\ UNCHANGED card
  /\ io_failed' = FALSE

\* gui.py: the Ramp button is clicked
start_ramp_gui(maxText, durText) ==
  /\ variant = "gui" /\ ~crashed
  /\ LET ch == combo
         max_v == IF IsFloat(maxText) THEN float(maxText) ELSE FZero
         duration == IF IsFloat(durText) THEN float(durText) ELSE FromInt(1000)
         steps == 10
         interval == FDivInt(duration, steps)
     IN  /\ active_channel' = ch
         /\ ramp_step' = FDivInt(max_v, steps)
         /\ ramp_count' = 0
         /\ ramp_interval' = FTrunc(interval)
         /\ ramp_timer' = TRUE
         /\ auto_timer' = TRUE
         /\ rmax' = max_v
  /\ op' = "start_ramp"
  /\ out' = <<>>
  /\ rw' = <<>>
  /\ session_start' = now
  /\ sticks' = 0
  /\ ramp_failed' = FALSE
  /\ UNCHANGED <<variant, ui, toggle, current_ramp, toggle_timer, drv, clock, plot, crashed>>
  /\ UNCHANGED <<tw, amp, nticks, reports>>
  /\ ev' = <<>>
  /\ label' = label
  /\ again' = IF Running /\ active_channel = combo THEN <<Progress>> ELSE <<>>
  /\ txt' = <<maxText, durText>>
  /\ UNCHANGED card
  /\ io_failed' = FALSE

\* a bound that lets one more tick write
StepDue_fw_one_more(count) == count <= ramp_steps + 1

\* functions_window.py: whether the tick that made the counter count writes a step
StepDue_fw(count) == count <= ramp_steps

\* a tick that still writes on step 11
StepDue_gui_late(count) == count <= 11

\* gui.py: the same
StepDue_gui(count) == count <= 10

\* functions_window.py: ramp_timer fires
perform_ramp_fw ==
  /\ variant = "fw" /\ ~crashed
  /\ ramp_timer
  /\ ramp_count' = ramp_count + 1
  /\ current_ramp' = FAdd(current_ramp, ramp_step)
  /\ LET ch == active_channel
     IN  IF StepDue_fw(ramp_count')
           THEN /\ drv' = [drv EXCEPT ![ch] = current_ramp']
                /\ out' = <<Write(ch, current_ramp')>>
                /\ rw' = Append(rw, [src |-> "tick", val |-> current_ramp'])
                /\ UNCHANGED timers
           ELSE /\ ramp_timer' = FALSE
                /\ auto_timer' = FALSE
                /\ out' = <<>>
                /\ UNCHANGED <<drv, rw, toggle_timer>>
  /\ op' = "ramp_tick"
  /\ UNCHANGED <<variant, ui, active_channel, toggle, ramp_step, ramp_interval, clock, plot, crashed>>
  /\ UNCHANGED <<tw, amp, rmax, session_start, sticks, nticks, ramp_failed, reports>>
  /\ ev' = <<>>
  /\ again' = <<>>
  /\ txt' = <<>>
  /\ UNCHANGED card
  /\ UNCHANGED <<label, io_failed>>

\* a ramp that starts over after its last step instead of stopping
perform_ramp_gui_endless ==
  /\ variant = "gui" /\ ~crashed
  /\ ramp_timer
  /\ LET ch == active_channel
         step == ramp_count + 1
         value == FMulInt(step, ramp_step)
     IN  IF StepDue_gui(step)
           THEN /\ ramp_count' = step
                /\ drv' = [drv EXCEPT ![ch] = value]
                /\ out' = <<Write(ch, value)>>
                /\ rw' = Append(rw, [src |-> "tick", val |-> value])
                /\ UNCHANGED timers
           ELSE /\ ramp_count' = 0
                /\ out' = <<>>
                /\ rw' = <<>>
                /\ UNCHANGED <<drv, timers>>
  /\ op' = "ramp_tick"
  /\ UNCHANGED <<variant, ui, active_channel, toggle, ramp_step, current_ramp, ramp_interval, clock, plot, crashed>>
  /\ UNCHANGED <<tw, amp, rmax, session_start, sticks, nticks, ramp_failed, reports>>
  /\ ev' = <<>>
  /\ again' = <<>>
  /\ txt' = <<>>
  /\ UNCHANGED card
  /\ UNCHANGED <<label, io_failed>>

\* gui.py: ramp_timer fires
perform_ramp_gui ==
  /\ variant = "gui" /\ ~crashed
  /\ ramp_timer
  /\ ramp_count' = ramp_count + 1
  /\ LET ch == active_channel
         value == FMulInt(ramp_count', ramp_step)
     IN  IF StepDue_gui(ramp_count')
           THEN /\ drv' = [drv EXCEPT ![ch] = value]
                /\ out' = <<Write(ch, value)>>
                /\ rw' = Append(rw, [src |-> "tick", val |-> value])
                /\ UNCHANGED timers
           ELSE /\ ramp_timer' = FALSE
                /\ auto_timer' = FALSE
                /\ out' = <<>>
                /\ UNCHANGED <<drv, rw, toggle_timer>>
  /\ op' = "ramp_tick"
  /\ UNCHANGED <<variant, ui, active_channel, toggle, ramp_step, current_ramp, ramp_interval, clock, plot, crashed>>
  /\ UNCHANGED <<tw, amp, rmax, session_start, sticks, nticks, ramp_failed, reports>>
  /\ ev' = <<>>
  /\ again' = <<>>
  /\ txt' = <<>>
  /\ UNCHANGED card
  /\ UNCHANGED <<label, io_failed>>

\* An exception that leaves a slot uncaught is printed; after that PyQt5
\* either aborts the process (5.5 and later, no excepthook installed) or
\* returns to the event loop (earlier versions, or an excepthook installed
\* by the environment).  Neither source file catches anything in its timer slots.
Uncaught ==
  /\ reports' = reports + 1
  /\ crashed' \in BOOLEAN

\* functions_window.py: ramp_timer fires and the driver raises on the write
perform_ramp_fw_raises ==
  /\ variant = "fw" /\ ~crashed
  /\ ramp_timer
  /\ reports < MaxReports
  /\ StepDue_fw(ramp_count + 1)
  /\ ramp_count' = ramp_count + 1
  /\ current_ramp' = FAdd(current_ramp, ramp_step)
  /\ Uncaught
  /\ ramp_failed' = TRUE
  /\ op' = "ramp_tick_raises"
  /\ out' = <<>>
  /\ UNCHANGED <<variant, ui, active_channel, toggle, ramp_step, ramp_interval, timers, drv, clock, plot>>
  /\ UNCHANGED <<tw, rw, amp, rmax, session_start, sticks, nticks>>
  /\ ev' = <<>>
  /\ again' = <<>>
  /\ txt' = <<>>
  /\ UNCHANGED card
  /\ UNCHANGED <<label, io_failed>>

\* gui.py: ramp_timer fires and the driver raises on the write
perform_ramp_gui_raises ==
  /\ variant = "gui" /\ ~crashed
  /\ ramp_timer
  /\ reports < MaxReports
  /\ StepDue_gui(ramp_count + 1)
  /\ ramp_count' = ramp_count + 1
  /\ Uncaught
  /\ ramp_failed' = TRUE
  /\ op' = "ramp_tick_raises"
  /\ out' = <<>>
  /\ UNCHANGED <<variant, ui, active_channel, toggle, ramp_step, current_ramp, ramp_interval, timers, drv, clock, plot>>
  /\ UNCHANGED <<tw, rw, amp, rmax, session_start, sticks, nticks>>
  /\ ev' = <<>>
  /\ again' = <<>>
  /\ txt' = <<>>
  /\ UNCHANGED card
  /\ UNCHANGED <<label, io_failed>>

\* the time since Toggle or Ramp was last started
Elapsed_since_activation == now - session_start

\* t = time.time() - self.start_time
Elapsed == now - start_time

\* a sampler that keeps a sample only when the value differs from the last one
AppendSample_if_changed(t, val) ==
  IF val_data # <<>> /\ val_data[Len(val_data)] = val
    THEN UNCHANGED plot
    ELSE /\ time_data' = Append(time_data, t)
         /\ val_data' = Append(val_data, val)

\* the sample (t, val) goes to the end of the two series
AppendSample(t, val) ==
  /\ time_data' = Append(time_data, t)
  /\ val_data' = Append(val_data, val)

\* QTimer.singleShot(800, ...): the delay of the call that sets a card back
\* to its base style
flash_ms == 800
SingleShot(ch) == [ch |-> ch, ms |-> flash_ms]

\* a single shot that is dropped without setting the base style
revert_style_dropped ==
  /\ ~crashed
  /\ shots # <<>>
  /\ style' = style
  /\ shots' = Tail(shots)
  /\ op' = "revert"
  /\ out' = <<>>
  /\ UNCHANGED <<variant, ui, active_channel, toggle, ramp, timers, drv, clock, plot, crashed>>
  /\ UNCHANGED <<tw, rw, amp, rmax, session_start, sticks, nticks, ramp_failed, reports>>
  /\ ev' = <<>>
  /\ again' = <<>>
  /\ txt' = <<>>
  /\ UNCHANGED <<label, io_failed>>

\* the oldest pending single shot fires: its lambda sets the card's base
\* style (all have the same delay, so they fire in the order they were made)
revert_style ==
  /\ ~crashed
  /\ shots # <<>>
  /\ style' = [style EXCEPT ![Head(shots).ch] = "base"]
  /\ shots' = Tail(shots)
  /\ op' = "revert"
  /\ out' = <<>>
  /\ UNCHANGED <<variant, ui, active_channel, toggle, ramp, timers, drv, clock, plot, crashed>>
  /\ UNCHANGED <<tw, rw, amp, rmax, session_start, sticks, nticks, ramp_failed, reports>>
  /\ ev' = <<>>
  /\ again' = <<>>
  /\ txt' = <<>>
  /\ UNCHANGED <<label, io_failed>>

\* the text the card of channel ch shows after card.update_current_display():
\* the value read from the channel
update_current_display(ch) == drv[ch]

\* a comparison that takes every tick for a change
LabelChanged_always(old, new) == TRUE

\* if old != new: the card's label shows another text than before the tick
LabelChanged(old, new) == old # new

\* functions_window.py: auto_update_timer fires; its slots run in the order
\* they were connected, auto_update_reading (the card's display) and then
\* _update_plot
auto_update_fw ==
  /\ variant = "fw" /\ ~crashed
  /\ auto_timer
  /\ Len(time_data) < MaxSamples
  /\ IF active_channel = None
       THEN UNCHANGED <<plot, label, card>> /\ ev' = <<>>
       ELSE LET ch == active_channel
                old == label[ch]
                new == update_current_display(ch)
                t == Elapsed
                val == drv[ch]
            IN  /\ label' = [label EXCEPT ![ch] = new]
                /\ ev' = IF LabelChanged(old, new) THEN <<[ch |-> ch, text |-> new]>> ELSE <<>>
                /\ style' = IF LabelChanged(old, new) THEN [style EXCEPT ![ch] = "success"] ELSE style
                /\ shots' = IF LabelChanged(old, new) THEN Append(shots, SingleShot(ch)) ELSE shots
                /\ AppendSample(t, val)
  /\ op' = "sample"
  /\ out' = <<>>
  /\ sticks' = sticks + 1
  /\ nticks' = nticks + 1
  /\ UNCHANGED <<variant, ui, active_channel, toggle, ramp, timers, drv, clock, crashed>>
  /\ UNCHANGED <<tw, rw, amp, rmax, session_start, ramp_failed, reports>>
  /\ again' = <<>>
  /\ txt' = <<>>
  /\ io_failed' = io_failed

\* gui.py: auto_timer fires
_auto_update ==
  /\ variant = "gui" /\ ~crashed
  /\ auto_timer
  /\ Len(time_data) < MaxSamples
  /\ IF active_channel = None
       THEN UNCHANGED <<plot, label, card>> /\ ev' = <<>>
       ELSE LET ch == active_channel
                old == label[ch]
                new_val == drv[ch]
                new == Format2(new_val)
                t == Elapsed
            IN  /\ label' = [label EXCEPT ![ch] = new]
                /\ ev' = IF LabelChanged(old, new) THEN <<[ch |-> ch, text |-> new]>> ELSE <<>>
                /\ style' = IF LabelChanged(old, new) THEN [style EXCEPT ![ch] = "success"] ELSE style
                /\ shots' = IF LabelChanged(old, new) THEN Append(shots, SingleShot(ch)) ELSE shots
                /\ AppendSample(t, drv[ch])
  /\ op' = "sample"
  /\ out' = <<>>
  /\ sticks' = sticks + 1
  /\ nticks' = nticks + 1
  /\ UNCHANGED <<variant, ui, active_channel, toggle, ramp, timers, drv, clock, crashed>>
  /\ UNCHANGED <<tw, rw, amp, rmax, session_start, ramp_failed, reports>>
  /\ again' = <<>>
  /\ txt' = <<>>
  /\ io_failed' = io_failed

\* functions_window.py: the Ramp button is clicked and the driver raises on
\* the write of 0, after the ramp's values are set and before the timers
\* are started
start_ramp_fw_raises(maxText, durText) ==
  /\ variant = "fw" /\ ~crashed
  /\ reports < MaxReports
  /\ LET ch == combo
         ramp_max == IF IsFloat(maxText) THEN float(maxText) ELSE FZero
         ramp_duration == IF IsFloat(durText) THEN float(durText) ELSE FromInt(1000)
         interval == FDivInt(ramp_duration, ramp_steps)
     IN  /\ active_channel' = ch
         /\ ramp_step' = FDivInt(ramp_max, ramp_steps)
         /\ ramp_interval' = FTrunc(interval)
         /\ current_ramp' = FZero
         /\ ramp_count' = 0
         /\ rmax' = ramp_max
  /\ Uncaught
  /\ op' = "start_ramp_raises"
  /\ out' = <<>>
  /\ UNCHANGED <<variant, ui, toggle, timers, drv, clock, plot>>
  /\ UNCHANGED <<tw, rw, amp, session_start, sticks, nticks, ramp_failed>>
  /\ ev' = <<>>
  /\ again' = <<>>
  /\ txt' = <<maxText, durText>>
  /\ UNCHANGED card
  /\ UNCHANGED <<label, io_failed>>

\* functions_window.py: the Toggle button is unchecked and the driver raises
\* on the write of 0; the toggle timer is stopped before the write, the
\* sampler timer only after it
toggle_current_raises ==
  /\ variant = "fw" /\ ~crashed
  /\ checked
  /\ reports < MaxReports
  /\ checked' = FALSE
  /\ toggle_timer' = FALSE
  /\ Uncaught
  /\ op' = "toggle_off_raises"
  /\ out' = <<>>
  /\ UNCHANGED <<variant, combo, active_channel, toggle, ramp, ramp_timer, auto_timer, drv, clock, plot>>
  /\ UNCHANGED <<tw, rw, amp, rmax, session_start, sticks, nticks, ramp_failed>>
  /\ ev' = <<>>
  /\ again' = <<>>
  /\ txt' = <<>>
  /\ UNCHANGED card
  /\ UNCHANGED <<label, io_failed>>

\* gui.py: the Toggle button is unchecked and the driver raises on the write
\* of 0; both timers are stopped before the write
toggle_voltage_raises ==
  /\ variant = "gui" /\ ~crashed
  /\ checked
  /\ reports < MaxReports
  /\ checked' = FALSE
  /\ active_channel' = combo
  /\ toggle_timer' = FALSE
  /\ auto_timer' = FALSE
  /\ Uncaught
  /\ op' = "toggle_off_raises"
  /\ out' = <<>>
  /\ UNCHANGED <<variant, combo, toggle, ramp, ramp_timer, drv, clock, plot>>
  /\ UNCHANGED <<tw, rw, amp, rmax, session_start, sticks, nticks, ramp_failed>>
  /\ ev' = <<>>
  /\ again' = <<>>
  /\ txt' = <<>>
  /\ UNCHANGED card
  /\ UNCHANGED <<label, io_failed>>

\* functions_window.py: toggle_timer fires and the driver raises on the
\* write, which comes before the phase is flipped
perform_toggle_fw_raises ==
  /\ variant = "fw" /\ ~crashed
  /\ toggle_timer
  /\ active_channel # None
  /\ reports < MaxReports
  /\ Uncaught
  /\ io_failed' = TRUE
  /\ op' = "toggle_tick_raises"
  /\ out' = <<>>
  /\ UNCHANGED <<variant, ui, active_channel, toggle, ramp, timers, drv, clock, plot>>
  /\ UNCHANGED <<tw, rw, amp, rmax, session_start, sticks, nticks, ramp_failed>>
  /\ ev' = <<>>
  /\ again' = <<>>
  /\ txt' = <<>>
  /\ UNCHANGED card
  /\ label' = label

\* gui.py: toggle_timer fires and the driver raises on the write
perform_toggle_gui_raises ==
  /\ variant = "gui" /\ ~crashed
  /\ toggle_timer
  /\ reports < MaxReports
  /\ Uncaught
  /\ io_failed' = TRUE
  /\ op' = "toggle_tick_raises"
  /\ out' = <<>>
  /\ UNCHANGED <<variant, ui, active_channel, toggle, ramp, timers, drv, clock, plot>>
  /\ UNCHANGED <<tw, rw, amp, rmax, session_start, sticks, nticks, ramp_failed>>
  /\ ev' = <<>>
  /\ again' = <<>>
  /\ txt' = <<>>
  /\ UNCHANGED card
  /\ label' = label

\* functions_window.py: auto_update_timer fires and the driver raises on the
\* reads: the card's read in auto_update_reading and, where the process goes
\* on, the read of _update_plot, each before anything is stored
auto_update_fw_raises ==
  /\ variant = "fw" /\ ~crashed
  /\ auto_timer
  /\ active_channel # None
  /\ reports < MaxReports
  /\ crashed' \in BOOLEAN
  /\ reports' = IF crashed' THEN reports + 1 ELSE reports + 2
  /\ io_failed' = TRUE
  /\ op' = "sample_raises"
  /\ out' = <<>>
  /\ UNCHANGED <<variant, ui, active_channel, toggle, ramp, timers, drv, clock, plot>>
  /\ UNCHANGED <<tw, rw, amp, rmax, session_start, sticks, nticks, ramp_failed>>
  /\ ev' = <<>>
  /\ again' = <<>>
  /\ txt' = <<>>
  /\ UNCHANGED card
  /\ label' = label

\* gui.py: auto_timer fires and the driver raises on the first read, before
\* the label is set and before anything is appended
_auto_update_raises ==
  /\ variant = "gui" /\ ~crashed
  /\ auto_timer
  /\ active_channel # None
  /\ reports < MaxReports
  /\ Uncaught
  /\ io_failed' = TRUE
  /\ op' = "sample_raises"
  /\ out' = <<>>
  /\ UNCHANGED <<variant, ui, active_channel, toggle, ramp, timers, drv, clock, plot>>
  /\ UNCHANGED <<tw, rw, amp, rmax, session_start, sticks, nticks, ramp_failed>>
  /\ ev' = <<>>
  /\ again' = <<>>
  /\ txt' = <<>>
  /\ UNCHANGED card
  /\ label' = label

\* gui.py: auto_timer fires, the read for the card succeeds and the driver
\* raises on the second read, the one inside voltage_data.append(...), after
\* the time was appended
_auto_update_raises_late ==
  /\ variant = "gui" /\ ~crashed
  /\ auto_timer
  /\ active_channel # None
  /\ Len(time_data) < MaxSamples
  /\ reports < MaxReports
  /\ LET ch == active_channel
         old == label[ch]
         new_val == drv[ch]
         new == Format2(new_val)
         t == Elapsed
     IN  /\ label' = [label EXCEPT ![ch] = new]
         /\ ev' = IF LabelChanged(old, new) THEN <<[ch |-> ch, text |-> new]>> ELSE <<>>
         /\ style' = IF LabelChanged(old, new) THEN [style EXCEPT ![ch] = "success"] ELSE style
         /\ shots' = IF LabelChanged(old, new) THEN Append(shots, SingleShot(ch)) ELSE shots
         /\ time_data' = Append(time_data, t)
         /\ val_data' = val_data
  /\ Uncaught
  /\ io_failed' = TRUE
  /\ op' = "sample_raises"
  /\ out' = <<>>
  /\ UNCHANGED <<variant, ui, active_channel, toggle, ramp, timers, drv, clock>>
  /\ UNCHANGED <<tw, rw, amp, rmax, session_start, sticks, nticks, ramp_failed>>
  /\ again' = <<>>
  /\ txt' = <<>>

(***************************************************************************)
(* Spec: the two controllers under every order of clicks and timer firings.*)
(* The sampler and the clock are left to SpecPlot: they write only the     *)
(* telemetry, which no controller handler reads.                           *)
(***************************************************************************)
Next ==
  \/ \E c \in Channels : SelectChannel(c)
  \/ \E chk \in BOOLEAN, text \in ToggleTexts : toggle_current(chk, text)
  \/ \E chk \in BOOLEAN, text \in ToggleTexts : toggle_voltage(chk, text)
  \/ perform_toggle_fw
  \/ perform_toggle_gui
  \/ \E m \in RampMaxTexts, d \in DurationTexts : start_ramp_fw(m, d)
  \/ \E m \in RampMaxTexts, d \in DurationTexts : start_ramp_gui(m, d)
  \/ perform_ramp_fw
  \/ perform_ramp_gui

Spec == Init /\ [][Next]_vars

(***************************************************************************)
(* SpecPlot: the window with the clock and the sampler, for the channel    *)
(* selected at start and ramps to 0, so that the telemetry holds the two   *)
(* values 0 and the amplitude.                                             *)
(***************************************************************************)
PlotRampMaxTexts == {"0"}

NextPlot ==
  \/ Tick
  \/ \E chk \in BOOLEAN, text \in ToggleTexts : toggle_current(chk, text)
  \/ \E chk \in BOOLEAN, text \in ToggleTexts : toggle_voltage(chk, text)
  \/ perform_toggle_fw
  \/ perform_toggle_gui
  \/ \E m \in PlotRampMaxTexts, d \in DurationTexts : start_ramp_fw(m, d)
  \/ \E m \in PlotRampMaxTexts, d \in DurationTexts : start_ramp_gui(m, d)
  \/ perform_ramp_fw
  \/ perform_ramp_gui
  \/ auto_update_fw
  \/ _auto_update

SpecPlot == Init /\ [][NextPlot]_vars

(***************************************************************************)
(* SpecDev: the controllers on a device whose writes may fail, for ramps   *)
(* to 0.                                                                   *)
(***************************************************************************)
DevRampMaxTexts == {"0"}

NextDev ==
  \/ \E c \in Channels : SelectChannel(c)
  \/ \E chk \in BOOLEAN, text \in ToggleTexts : toggle_current(chk, text)
  \/ \E chk \in BOOLEAN, text \in ToggleTexts : toggle_voltage(chk, text)
  \/ perform_toggle_fw
  \/ perform_toggle_gui
  \/ \E m \in DevRampMaxTexts, d \in DurationTexts : start_ramp_fw(m, d)
  \/ \E m \in DevRampMaxTexts, d \in DurationTexts : start_ramp_gui(m, d)
  \/ perform_ramp_fw
  \/ perform_ramp_gui
  \/ perform_ramp_fw_raises
  \/ perform_ramp_gui_raises

SpecDev == Init /\ [][NextDev]_vars

(***************************************************************************)
(* SpecCard: Toggle sessions with the sampler and the channel card, for an *)
(* amplitude the card shows as it is and one below what two decimals show. *)
(***************************************************************************)
CardToggleTexts == {"3", "0.00390625"}

NextCard ==
  \/ \E chk \in BOOLEAN, text \in CardToggleTexts : toggle_current(chk, text)
  \/ \E chk \in BOOLEAN, text \in CardToggleTexts : toggle_voltage(chk, text)
  \/ perform_toggle_fw
  \/ perform_toggle_gui
  \/ auto_update_fw
  \/ _auto_update

SpecCard == Init /\ [][NextCard]_vars

(***************************************************************************)
(* SpecIO: Toggle sessions with the sampler on a device whose writes and   *)
(* reads may fail.                                                         *)
(***************************************************************************)
NextIO ==
  \/ \E chk \in BOOLEAN, text \in ToggleTexts : toggle_current(chk, text)
  \/ \E chk \in BOOLEAN, text \in ToggleTexts : toggle_voltage(chk, text)
  \/ perform_toggle_fw
  \/ perform_toggle_gui
  \/ auto_update_fw
  \/ _auto_update
  \/ toggle_current_raises
  \/ toggle_voltage_raises
  \/ perform_toggle_fw_raises
  \/ perform_toggle_gui_raises
  \/ auto_update_fw_raises
  \/ _auto_update_raises
  \/ _auto_update_raises_late

SpecIO == Init /\ [][NextIO]_vars

(***************************************************************************)
(* SpecParse: the controllers started from input texts that float()        *)
(* accepts and from texts on which it raises ValueError.                   *)
(***************************************************************************)
ParseToggleTexts == {"3", "abc"}
ParseRampMaxTexts == {"", "1"}
ParseDurationTexts == {"ms", "0"}

NextParse ==
  \/ \E chk \in BOOLEAN, text \in ParseToggleTexts : toggle_current(chk, text)
  \/ \E chk \in BOOLEAN, text \in ParseToggleTexts : toggle_voltage(chk, text)
  \/ perform_toggle_fw
  \/ perform_toggle_gui
  \/ \E m \in ParseRampMaxTexts, d \in ParseDurationTexts : start_ramp_fw(m, d)
  \/ \E m \in ParseRampMaxTexts, d \in ParseDurationTexts : start_ramp_gui(m, d)
  \/ perform_ramp_fw
  \/ perform_ramp_gui

SpecParse == Init /\ [][NextParse]_vars

(***************************************************************************)
(* SpecBounds: the controllers for the first item of the channel combo    *)
(* box and for the last item of the combo box of functions_window.py.     *)
(* What the driver does with a channel it does not have is not in the      *)
(* sources: the write is ignored, or it raises.                            *)
(***************************************************************************)
BoundsPicks == {1, fw_combo_last}

NextBounds ==
  \/ \E c \in BoundsPicks : SelectChannel(c)
  \/ \E chk \in BOOLEAN, text \in ToggleTexts : toggle_current(chk, text)
  \/ \E chk \in BOOLEAN, text \in ToggleTexts : toggle_voltage(chk, text)
  \/ perform_toggle_fw
  \/ perform_toggle_gui
  \/ \E m \in DevRampMaxTexts, d \in DurationTexts : start_ramp_fw(m, d)
  \/ \E m \in DevRampMaxTexts, d \in DurationTexts : start_ramp_gui(m, d)
  \/ perform_ramp_fw
  \/ perform_ramp_gui
  \/ toggle_current_raises
  \/ perform_toggle_fw_raises
  \/ \E m \in DevRampMaxTexts, d \in DurationTexts : start_ramp_fw_raises(m, d)
  \/ perform_ramp_fw_raises

SpecBounds == Init /\ [][NextBounds]_vars

(***************************************************************************)
(* SpecLive: ramps of 1000 ms and of 0 ms with the Toggle button, and with *)
(* ramp ticks whose write may raise.  A started QTimer fires again and     *)
(* again for as long as it is running and the event loop runs, also with   *)
(* interval 0, so a ramp tick (one that writes or one whose write raises)  *)
(* is taken whenever it stays enabled.                                     *)
(***************************************************************************)
LiveRampMaxTexts == {"1"}
LiveDurationTexts == {"ms", "0"}

NextLive ==
  \/ \E chk \in BOOLEAN, text \in ToggleTexts : toggle_current(chk, text)
  \/ \E chk \in BOOLEAN, text \in ToggleTexts : toggle_voltage(chk, text)
  \/ \E m \in LiveRampMaxTexts, d \in LiveDurationTexts : start_ramp_fw(m, d)
  \/ \E m \in LiveRampMaxTexts, d \in LiveDurationTexts : start_ramp_gui(m, d)
  \/ perform_ramp_fw
  \/ perform_ramp_gui
  \/ perform_ramp_fw_raises
  \/ perform_ramp_gui_raises

\* the ramp timer fires: the steps of perform_ramp, with a write that
\* succeeds or raises; they are possible exactly while the timer is running
RampFires ==
  /\ ramp_timer /\ ~crashed
  /\ op' \in {"ramp_tick", "ramp_tick_raises"}
  /\ ramp_count' = ramp_count + 1

SpecLive == Init /\ [][NextLive]_vars /\ WF_ramp_count(RampFires)

(***************************************************************************)
(* SpecFlash: Toggle sessions with the sampler, the channel card's         *)
(* highlight and the single shots that take it back.  A single shot fires  *)
(* once its delay has passed and the event loop runs, so a pending one is  *)
(* eventually fired.                                                       *)
(***************************************************************************)
NextFlash ==
  \/ \E chk \in BOOLEAN, text \in CardToggleTexts : toggle_current(chk, text)
  \/ \E chk \in BOOLEAN, text \in CardToggleTexts : toggle_voltage(chk, text)
  \/ perform_toggle_fw
  \/ perform_toggle_gui
  \/ auto_update_fw
  \/ _auto_update
  \/ revert_style

SpecFlash == Init /\ [][NextFlash]_vars /\ WF_vars(revert_style)

(***************************************************************************)
(* The claims.                                                             *)
(***************************************************************************)
IsTickWrite(w) == w.src = "tick"
\* the writes the ramp ticks made since Ramp was started
RampTickWrites == SelectSeq(rw, IsTickWrite)
Activations == {"toggle_on", "start_ramp"}

\* C1: the n-th value a toggle tick writes after Toggle was started with an
\* amplitude A > 0 is A when n is odd and 0 when n is even.
C1_ToggleSequence ==
  amp # FZero =>
    \A n \in 1..Len(tw) : tw[n] = (IF n % 2 = 1 THEN amp ELSE FZero)

C1_Witness == amp # FZero /\ Len(tw) >= 3 /\ op = "toggle_tick"

\* C2: stopping Toggle makes exactly one write, of 0, and the handler that
\* runs next writes nothing unless it starts Toggle or Ramp.
C2_ToggleStop ==
  [][ /\ (op' = "toggle_off" => Len(out') = 1 /\ out'[1].val = FZero)
      /\ (op = "toggle_off" /\ op' \notin Activations => out' = <<>>) ]_vars

\* C3: the k-th ramp tick writes k * (M / 10); for M > 0 the writes increase
\* strictly and the 10th is M; for M = 0 they are all 0.
C3_RampValues ==
  LET t == RampTickWrites
  IN  \A k \in 1..Len(t) :
        /\ t[k].val = FMulInt(k, FDivInt(rmax, ramp_steps))
        /\ rmax # FZero =>
             /\ k > 1 => FLess(t[k - 1].val, t[k].val)
             /\ k = ramp_steps => t[k].val = rmax
        /\ rmax = FZero => t[k].val = FZero

\* C4, as amended: the ramp ticks of a run write exactly 10 times, once on
\* each of the ticks 1..10; the 11th tick writes nothing and stops the ramp
\* timer.  Besides them functions_window.py writes once (a 0) when the Ramp is
\* started, gui.py does not.
C4_RampWriteCount ==
  LET t == Len(RampTickWrites)
  IN  /\ ramp_count <= ramp_steps + 1
      /\ t = (IF ramp_count <= ramp_steps THEN ramp_count ELSE ramp_steps)
      /\ Len(rw) - t = (IF variant = "fw" /\ (ramp_timer \/ ramp_count > 0) THEN 1 ELSE 0)
      /\ ramp_count > ramp_steps => ~ramp_timer

C4_Witness == ramp_count = ramp_steps + 1 /\ op = "ramp_tick" /\ ~ramp_timer

\* C4 as claimed: from the activation of a Ramp to its completion the
\* controller writes exactly 10 times.
C4_Original == ramp_count > ramp_steps => Len(rw) = ramp_steps

\* C5: activating Toggle or Ramp on a channel B while another channel A is
\* running first writes 0 to A, before anything is written to B.
C5_Exclusivity ==
  [][ ( /\ op' \in Activations
        /\ toggle_timer \/ ramp_timer
        /\ active_channel # None
        /\ active_channel' # active_channel )
      => (out' # <<>> /\ out'[1] = Write(active_channel, FZero)) ]_vars

\* C6: the toggle timer and the ramp timer never run at the same time.
C6_SingleMode == ~(toggle_timer /\ ramp_timer)

\* C7: once a write of a ramp tick has failed, the ramp timer and the
\* sampler timer are stopped (in a process that goes on running).
C7_RampDeviceFailure == (ramp_failed /\ ~crashed) => (~ramp_timer /\ ~auto_timer)

C11_ChangeDetection ==
  [][ (op' = "sample" /\ active_channel \in Channels) =>
        LET ch == active_channel
        IN  /\ Len(ev') <= 1
            /\ (ev' # <<>>) <=> (label'[ch] # label[ch])
            /\ ev' # <<>> => ev'[1] = [ch |-> ch, text |-> label'[ch]]
            /\ variant = "gui" => label'[ch] = Format2(drv[ch])
            /\ \A c \in Channels \ {ch} : label'[c] = label[c] ]_vars

\* a tick that read another value than the tick before it and raised no event
C11_Witness ==
  /\ op = "sample" /\ ev = <<>>
  /\ Len(val_data) >= 2
  /\ val_data[Len(val_data)] # val_data[Len(val_data) - 1]

\* C11 as claimed: a sampler tick raises no event when it reads the value the
\* tick before it read, and exactly one event when it reads another value.
C11_Original ==
  [][ (op' = "sample" /\ val_data # <<>> /\ active_channel \in Channels) =>
        LET before == val_data[Len(val_data)]
            read == drv[active_channel]
        IN  /\ before = read => ev' = <<>>
            /\ before # read => Len(ev') = 1 ]_vars

\* C12: when Toggle is stopped, the channel that was under control (the
\* active channel, which the toggle ticks wrote to) is commanded to 0.
C12_StopZeroesActive ==
  [][ (op' = "toggle_off" /\ active_channel # None) => drv'[active_channel] = FZero ]_vars

\* C13: while the toggle timer or the ramp timer is running an active channel
\* is set, and every write of a controller tick goes to a channel.
C13_SessionInvariant ==
  /\ Running => active_channel # None
  /\ op \in {"toggle_tick", "ramp_tick"} => \A i \in 1..Len(out) : out[i].ch # None

C13_Witness == Running /\ op = "toggle_tick" /\ out # <<>> /\ out[1].ch = active_channel

\* C14: whenever the ramp timer is running the step counter is at most the
\* number of steps, which is 10 throughout.
C14_RampStepInvariant ==
  ramp_timer => (ramp_count \in 0..ramp_steps /\ ramp_steps = 10)

C14_Witness == ramp_timer /\ op = "ramp_tick" /\ ramp_count = ramp_steps /\ out # <<>>

\* C15: in every state of a running program, if the sampler timer is running
\* then the toggle timer or the ramp timer is running.
C15_SamplerOnlyInSession == ~crashed => (auto_timer => Running)

\* C16: in every state, if the toggle timer or the ramp timer is running then
\* the sampler timer is running too.
C16_SamplerWithController == Running => auto_timer

\* C17: clicking Ramp for the channel on which a ramp is already running
\* changes nothing: no write is issued and the step counter and the toggle
\* phase stay as they were.
C17_IdempotentActivation ==
  [][ (op' = "start_ramp" /\ ramp_timer /\ again' # <<>>) =>
        /\ out' = <<>>
        /\ ramp_count' = again'[1].count
        /\ toggle_state' = again'[1].state
        /\ drv' = drv ]_vars

\* C18: once the driver has raised on a write of a toggle tick or on a read
\* of a sampler tick, and until the user starts a session again, the toggle
\* timer, the ramp timer and the sampler timer are all stopped.
C18_DeviceFailureStops ==
  (io_failed /\ ~crashed) => (~toggle_timer /\ ~ramp_timer /\ ~auto_timer)

\* C19: a Toggle started from a text that is not a number has amplitude 0.0;
\* a Ramp started from a maximum that is not a number has maximum 0.0 and
\* from a duration that is not a number has duration 1000.0 ms (a timer
\* interval of 100 ms), each field on its own while the other keeps the
\* number entered; the timers are running after the start and no error is
\* raised.
C19_ParseDefaults ==
  /\ op = "toggle_on" =>
       /\ ~IsFloat(txt[1]) => toggle_value = FZero
       /\ IsFloat(txt[1]) => toggle_value = float(txt[1])
       /\ toggle_timer /\ auto_timer /\ ~crashed /\ reports = 0
  /\ op = "start_ramp" =>
       /\ ~IsFloat(txt[1]) => (rmax = FZero /\ ramp_step = FZero)
       /\ IsFloat(txt[1]) => (rmax = float(txt[1]) /\ ramp_step = FDivInt(rmax, 10))
       /\ ~IsFloat(txt[2]) => ramp_interval = 100
       /\ IsFloat(txt[2]) => ramp_interval = FTrunc(FDivInt(float(txt[2]), 10))
       /\ ramp_timer /\ auto_timer /\ ~crashed /\ reports = 0

C19_Witness ==
  /\ op = "start_ramp" /\ IsFloat(txt[1]) /\ ~IsFloat(txt[2])
  /\ ramp_step # FZero /\ ramp_interval = 100 /\ ramp_timer
  /\ amp = FZero /\ toggle_timer /\ tw # <<>>

\* C20: every write a handler issues goes to a channel c of the connected
\* device, 1 <= c <= NumChannels.
C20_ChannelBounds == \A i \in 1..Len(out) : out[i].ch \in Channels


\* C21: a ramp that is running is, unless Ramp is clicked again or the
\* process is aborted, eventually stopped; the ramp timer is stopped by the
\* 11th tick after the start and by nothing else; and a Ramp started with
\* duration 0 has timer interval 0, is running and raised nothing.
C21_RampTermination ==
  /\ ramp_timer ~> (~ramp_timer \/ op = "start_ramp" \/ crashed)
  /\ [][ (ramp_timer /\ ramp_count = ramp_steps /\ op' \in {"ramp_tick", "ramp_tick_raises"})
           => (~ramp_timer' /\ ramp_count' = ramp_steps + 1) ]_vars
  /\ [][ (ramp_timer /\ ~ramp_timer')
           => (op' = "ramp_tick" /\ ramp_count' = ramp_steps + 1) ]_vars
  /\ []( (op = "start_ramp" /\ txt[2] = "0")
           => (ramp_interval = 0 /\ ramp_timer /\ ramp_count = 0 /\ ~crashed) )

C21_Witness ==
  /\ op = "ramp_tick" /\ ~ramp_timer /\ ramp_count = ramp_steps + 1
  /\ ramp_interval = 0 /\ Len(RampTickWrites) = ramp_steps


C23_TickFrame ==
  [][ /\ op' \in {"toggle_tick", "ramp_tick", "toggle_tick_raises", "ramp_tick_raises"} =>
           /\ \A c \in Channels \ {active_channel} : drv'[c] = drv[c]
           /\ Len(out') <= 1
           /\ \A i \in 1..Len(out') : out'[i].ch = active_channel /\ drv'[active_channel] = out'[i].val
           /\ out' = <<>> => drv' = drv
           /\ active_channel' = active_channel
           /\ time_data' = time_data /\ val_data' = val_data
      /\ op' = "sample" => (drv' = drv /\ out' = <<>> /\ active_channel' = active_channel) ]_vars

C23_Witness ==
  /\ op = "toggle_tick" /\ out # <<>> /\ out[1].val # FZero
  /\ drv[active_channel] = out[1].val
  /\ \E c \in Channels : c # active_channel /\ drv[c] = FZero
  /\ time_data # <<>>


\* C24: in every state of a running program the time series and the value
\* series have the same length; no handler removes or rewrites a sample;
\* and each sampler tick extends both series by exactly one element.
C24_TelemetryShape ==
  /\ [](~crashed => Len(time_data) = Len(val_data))
  /\ [][ /\ Len(time_data') >= Len(time_data) /\ Len(val_data') >= Len(val_data)
         /\ SubSeq(time_data', 1, Len(time_data)) = time_data
         /\ SubSeq(val_data', 1, Len(val_data)) = val_data ]_vars
  /\ [][ op' = "sample" =>
           (Len(time_data') = Len(time_data) + 1 /\ Len(val_data') = Len(val_data) + 1) ]_vars


\* C25: after Toggle was stopped and the driver raised on the write of 0,
\* in a program that is still running, the toggle timer and the sampler
\* timer are both stopped.
C25_StopSurvivesFailure ==
  (op = "toggle_off_raises" /\ ~crashed) => (~toggle_timer /\ ~auto_timer)

====
